---- MODULE Spec2Model ----
(***************************************************************************)
(* Price-cap-governed reimbursement pipeline of the travel portal:         *)
(* flight searches and price caps, the consultant's ReimbursementSubmission*)
(* form (ConsultantPortal.tsx), the admin's ReimbursementManager           *)
(* (part_002) and the tables of the reimbursement migration.               *)
(*                                                                         *)
(* Text values are sequences of one-character strings, SQL NULL / JS null  *)
(* is the empty tuple Null and a present value v is Some(v).  Each await   *)
(* of an async handler ends one step, so handlers of different sessions    *)
(* interleave at their awaits.                                             *)
(***************************************************************************)
EXTENDS Integers, Sequences, FiniteSets, TLC

\* ---------------------------------------------------------------- bounds
MaxSearches == 2
MaxQuotes == 2
MaxCaps == 2
MaxRequests == 2
MaxFiles == 2
PipelineSearches == 1
PipelineRequests == 1
MaxAuditEntries == 3
MaxHotelSearches == 2

\* ------------------------------------------------------- program constants
MaxFileSize == 10 * 1024 * 1024

\* ------------------------------------------------------------ input domains
Admins == {"admin1", "admin2"}
Consultants == {"con1", "con2"}
Forms == {"form1", "form2"}
Assignments == {"asg1"}
Prices == {2, 4}
AmountInputs == {<<>>, <<"0">>, <<"-", "1">>, <<"1">>, <<"3">>}
FileSizes == {MaxFileSize, MaxFileSize + 1}
NoteInputs == {<<>>, <<"n">>}
ReasonInputs == {<<>>, <<" ">>, <<"r">>}

\* narrower inputs of the specifications that follow a claim through review
PipelineQuotes == {<<2>>}
ReviewAmounts == {<<"1">>, <<"3">>}
ReviewFiles == {<<MaxFileSize>>}
RaceAmounts == {<<"3">>}
ReviewAdmins == {"admin1"}

\* the form the narrower specifications work with
PipelineForms == {"form1"}

\* the assignment and consultantId props of a mounted submission form
FormAssignment(f) == IF f = "form1" THEN "asg1" ELSE "asg2"
FormConsultant(f) == IF f = "form1" THEN "con1" ELSE "con2"

Null == <<>>
Some(v) == <<v>>
IsSet(o) == o # Null
Val(o) == o[1]

TerminalStatuses == {"approved", "rejected", "paid"}

\* ------------------------------------------------------------ pure helpers
Min(a, b) == IF a <= b THEN a ELSE b

RECURSIVE SeqMin(_)
SeqMin(s) == IF Len(s) = 1 THEN s[1] ELSE Min(s[1], SeqMin(Tail(s)))

SeqsUpTo(S, n) == UNION {[1..k -> S] : k \in 0..n}

Count(s, P(_)) == Cardinality({i \in 1..Len(s) : P(s[i])})

\* String.prototype.trim: drops leading and trailing white space
RECURSIVE TrimLeft(_)
TrimLeft(s) == IF s # <<>> /\ s[1] = " " THEN TrimLeft(Tail(s)) ELSE s

RECURSIVE TrimRight(_)
TrimRight(s) ==
  IF s # <<>> /\ s[Len(s)] = " " THEN TrimRight(SubSeq(s, 1, Len(s) - 1)) ELSE s

trim(s) == TrimRight(TrimLeft(s))

\* parseFloat on the values an <input type="number"> can hold: an optional
\* sign followed by decimal digits (the empty string never reaches it)
DigitVal(c) ==
  CASE c = "0" -> 0 [] c = "1" -> 1 [] c = "2" -> 2 [] c = "3" -> 3 [] c = "4" -> 4
    [] c = "5" -> 5 [] c = "6" -> 6 [] c = "7" -> 7 [] c = "8" -> 8 [] c = "9" -> 9

RECURSIVE ParseDigits(_, _)
ParseDigits(s, acc) ==
  IF s = <<>> THEN acc ELSE ParseDigits(Tail(s), 10 * acc + DigitVal(s[1]))

parseFloat(s) ==
  IF s[1] = "-" THEN 0 - ParseDigits(Tail(s), 0) ELSE ParseDigits(s, 0)

\* ------------------------------------------------------------------- state
VARIABLES
  now,              \* the database clock behind now() / new Date()
  flight_searches,  \* rows [assignment_id, executed_at]; id = position
  flight_options,   \* rows [search_id, price]
  price_caps,       \* assignment_price_caps rows; id = position
  capResult,        \* outcome of the last setCapFromSearch
  requests,         \* reimbursement_requests rows; id = position
  attachments,      \* reimbursement_attachments rows
  stored,           \* objects in the reimbursement_receipts bucket
  audit_logs,       \* audit_logs rows
  capAtSubmit,      \* history: per request, the assignment's active cap at the
                    \* insert and the priceCap the form held then
  form,             \* per form: state of ReimbursementSubmission
  mgr,              \* per session: state of ReimbursementManager
  portalAssignments,  \* ConsultantPortal.assignments: flight_options shown
  adminAssignments,   \* AssignmentsManager.assignments: embedded searches
  displayOptions,     \* FlightOptionsDisplay.options of the expanded row
  statusRequests,     \* per consultant: ReimbursementStatus.requests
  hotel_searches,   \* rows [assignment_id, executed_at]; id = position
  hotel_options,    \* rows [search_id, hotel_id, total_price]
  hotelPanel        \* per session: state of HotelSearchPanel

vars == <<now, flight_searches, flight_options, price_caps, capResult,
          requests, attachments, stored, audit_logs, capAtSubmit, form, mgr,
          portalAssignments, adminAssignments, displayOptions, statusRequests,
          hotel_searches, hotel_options, hotelPanel>>

dbSearch == <<flight_searches, flight_options, price_caps, capResult>>
dbClaims == <<requests, attachments, stored, audit_logs, capAtSubmit>>
views == <<portalAssignments, adminAssignments, displayOptions, statusRequests>>
hotels == <<hotel_searches, hotel_options, hotelPanel>>

\* ------------------------------------------- callers and row level security
\* user_roles: the users that hold the admin role
isAdmin(user) == user \in Admins

\* SELECT id FROM consultants WHERE user_id = auth.uid()
ConsultantIdsOf(user) ==
  IF user = "user1" THEN {"con1"} ELSE IF user = "user2" THEN {"con2"} ELSE {}

\* the signed-in user behind a consultant's portal
ConsultantUser(consultantId) == IF consultantId = "con1" THEN "user1" ELSE "user2"

MaySelectMutantEveryone(user, row) == TRUE

\* policies "Consultants can view own reimbursement requests" and "Admins can
\* manage all reimbursement requests"
MaySelectRequest(user, row) ==
  row.consultant_id \in ConsultantIdsOf(user) \/ isAdmin(user)

\* policies "Consultants can create reimbursement requests" and "Admins can
\* manage all reimbursement requests"
MayInsertRequest(user, row) ==
  row.consultant_id \in ConsultantIdsOf(user) \/ isAdmin(user)

MayUpdateMutantEveryone(user, row) == TRUE

\* reimbursement_requests has one policy that covers UPDATE: "Admins can
\* manage all reimbursement requests"
MayUpdateRequest(user, row) == isAdmin(user)

\* the rows of reimbursement_requests a select of this user returns
VisibleRequests(user) ==
  SelectSeq(requests, LAMBDA row : MaySelectRequest(user, row))

\* policy "Users can view attachments for their reimbursements"; its
\* subqueries on reimbursement_requests run under the caller's own policies
MaySelectAttachment(user, attachment) ==
  \/ \E i \in 1..Len(VisibleRequests(user)) :
        /\ VisibleRequests(user)[i].id = attachment.reimbursement_id
        /\ \/ VisibleRequests(user)[i].consultant_id \in ConsultantIdsOf(user)
           \/ VisibleRequests(user)[i].reviewed_by = Some(user)
  \/ isAdmin(user)

VisibleAttachments(user) ==
  SelectSeq(attachments, LAMBDA attachment : MaySelectAttachment(user, attachment))

\* ------------------------------------------------------ Quote store / caps
QuotesOf(searchId) ==
  SelectSeq(flight_options, LAMBDA o : o.search_id = searchId)

PricesOf(searchId) ==
  [i \in 1..Len(QuotesOf(searchId)) |-> QuotesOf(searchId)[i].price]

CapIdsOf(assignmentId) ==
  {i \in 1..Len(price_caps) : price_caps[i].assignment_id = assignmentId}

ActiveCapMutantOldest(assignmentId) ==
  IF CapIdsOf(assignmentId) = {} THEN Null
  ELSE LET i == CHOOSE i \in CapIdsOf(assignmentId) :
                  \A j \in CapIdsOf(assignmentId) :
                     price_caps[i].set_at <= price_caps[j].set_at
       IN  Some(price_caps[i])

\* activeCapFor: the cap row with the most recent set_at, or none
activeCapFor(assignmentId) ==
  IF CapIdsOf(assignmentId) = {} THEN Null
  ELSE LET i == CHOOSE i \in CapIdsOf(assignmentId) :
                  \A j \in CapIdsOf(assignmentId) :
                     price_caps[j].set_at <= price_caps[i].set_at
       IN  Some(price_caps[i])

\* recordSearch + recordQuotes: one executed search and the options it found
RecordSearch(assignmentId, quotes) ==
  /\ Len(flight_searches) < MaxSearches
  /\ flight_searches' = Append(flight_searches,
        [assignment_id |-> assignmentId, executed_at |-> now])
  /\ flight_options' = flight_options \o
        [i \in 1..Len(quotes) |->
           [search_id |-> Len(flight_searches) + 1, price |-> quotes[i]]]
  /\ now' = now + 1
  /\ UNCHANGED <<price_caps, capResult, dbClaims, form, mgr, views, hotels>>

CapMutantFirstPrice(searchId) == PricesOf(searchId)[1]

CapPrice(searchId) == SeqMin(PricesOf(searchId))

SetCapFromSearch(searchId) ==
  /\ IF QuotesOf(searchId) = <<>>
       THEN /\ capResult' = "NoQuotesError"
            /\ UNCHANGED <<price_caps, now, hotels>>
       ELSE /\ Len(price_caps) < MaxCaps
            /\ price_caps' = Append(price_caps,
                 [assignment_id |-> flight_searches[searchId].assignment_id,
                  max_approved_price |-> CapPrice(searchId),
                  set_at |-> now,
                  search_id |-> searchId])
            /\ capResult' = "ok"
            /\ now' = now + 1
  /\ UNCHANGED <<flight_searches, flight_options, dbClaims, form, mgr, views, hotels>>

\* --------------------------------------- ReimbursementSubmission (consultant)
\* The React state of the form, the locals of a running handleSubmit (pc,
\* request, idx, uploadedCount, amount, approvedAmount, and submittedFiles,
\* the files of the render the handler was started from) and two history
\* fields: offered, the sizes of all files handed to the file input since the
\* list was last emptied, and offeredAtSubmit, its value at the last submit.
IdleForm ==
  [submittedAmount |-> <<>>, files |-> <<>>, offered |-> <<>>, loading |-> FALSE,
   error |-> "", success |-> Null, priceWarning |-> FALSE, priceCap |-> Null,
   pc |-> "idle", request |-> 0, idx |-> 0, uploadedCount |-> 0,
   amount |-> 0, approvedAmount |-> 0, submittedFiles |-> <<>>,
   offeredAtSubmit |-> <<>>]

\* the parent hands the form the assignment's current cap as the priceCap prop
LoadPriceCap(f) ==
  /\ form[f].pc = "idle"
  /\ form[f].priceCap # activeCapFor(FormAssignment(f))
  /\ form' = [form EXCEPT ![f].priceCap = activeCapFor(FormAssignment(f))]
  /\ UNCHANGED <<now, dbSearch, dbClaims, mgr, views, hotels>>

ExceedsCap(priceCap, value) ==
  /\ IsSet(priceCap)
  /\ value # <<>>
  /\ parseFloat(value) > Val(priceCap).max_approved_price

\* the inputs stay enabled while a submit is running; only the submit button
\* is disabled then
handleAmountChange(f, value) ==
  /\ value # form[f].submittedAmount
  /\ form' = [form EXCEPT ![f].submittedAmount = value,
                          ![f].priceWarning = ExceedsCap(form[f].priceCap, value)]
  /\ UNCHANGED <<now, dbSearch, dbClaims, mgr, views, hotels>>

TooLargeMutantNoLimit(file) == FALSE

TooLarge(file) == file.size > MaxFileSize

ValidFiles(selected) == SelectSeq(selected, LAMBDA file : ~TooLarge(file))

\* the files picked in the file input; a file is named by its ordinal among
\* the files offered since the list was last emptied
Picked(f, sizes) ==
  [i \in 1..Len(sizes) |-> [name |-> Len(form[f].offered) + i, size |-> sizes[i]]]

handleFileSelect(f, sizes) ==
  /\ sizes # <<>>
  /\ Len(form[f].offered) + Len(sizes) <= MaxFiles
  /\ form' = [form EXCEPT
        ![f].files = @ \o ValidFiles(Picked(f, sizes)),
        ![f].offered = @ \o sizes,
        ![f].error = IF \E i \in 1..Len(sizes) : TooLarge(Picked(f, sizes)[i])
                       THEN "file_too_large" ELSE @]
  /\ UNCHANGED <<now, dbSearch, dbClaims, mgr, views, hotels>>

InvalidAmountMutantZeroPasses(value) == value = <<>> \/ parseFloat(value) < 0

\* !submittedAmount || parseFloat(submittedAmount) <= 0
InvalidAmount(value) == value = <<>> \/ parseFloat(value) <= 0

ClampMutantNoClamp(priceCap, amount) == amount

ClampMutantMax(priceCap, amount) ==
  IF IsSet(priceCap) /\ Val(priceCap).max_approved_price > amount
    THEN Val(priceCap).max_approved_price ELSE amount

\* approvedAmount of handleSubmit
Clamp(priceCap, amount) ==
  IF IsSet(priceCap) THEN Min(amount, Val(priceCap).max_approved_price)
  ELSE amount

NewRequest(f, amount, approvedAmount) ==
  [id |-> Len(requests) + 1,
   assignment_id |-> FormAssignment(f),
   consultant_id |-> FormConsultant(f),
   submitted_amount |-> amount,
   approved_amount |-> Some(approvedAmount),
   status |-> "pending",
   submission_date |-> now,
   review_date |-> Null,
   reviewed_by |-> Null,
   rejection_reason |-> Null,
   notes |-> Null]

RequestFailedMutantClears(fm) ==
  [fm EXCEPT !.error = "insert_failed", !.success = Null, !.loading = FALSE,
             !.submittedAmount = <<>>, !.files = <<>>]

\* requestError: thrown, caught by setError, loading reset in finally
RequestFailed(fm) ==
  [fm EXCEPT !.error = "insert_failed", !.success = Null, !.loading = FALSE]

\* handleSubmit up to its first await: validation, then the claim insert
handleSubmit(f) ==
  /\ form[f].pc = "idle"
  /\ UNCHANGED <<dbSearch, attachments, stored, audit_logs, mgr, views, hotels>>
  /\ IF InvalidAmount(form[f].submittedAmount)
       THEN /\ form' = [form EXCEPT ![f].error = "invalid_amount",
                                    ![f].success = Null]
            /\ UNCHANGED <<now, requests, capAtSubmit, hotels>>
     ELSE IF Len(form[f].files) = 0
       THEN /\ form' = [form EXCEPT ![f].error = "no_files",
                                    ![f].success = Null]
            /\ UNCHANGED <<now, requests, capAtSubmit, hotels>>
     ELSE LET amount == parseFloat(form[f].submittedAmount)
              approvedAmount == Clamp(form[f].priceCap, amount)
          IN \/ /\ Len(requests) < MaxRequests
                /\ MayInsertRequest(ConsultantUser(FormConsultant(f)),
                                    NewRequest(f, amount, approvedAmount))
                /\ requests' = Append(requests, NewRequest(f, amount, approvedAmount))
                /\ capAtSubmit' = Append(capAtSubmit,
                      [active |-> activeCapFor(FormAssignment(f)),
                       held |-> form[f].priceCap])
                /\ now' = now + 1
                /\ form' = [form EXCEPT
                      ![f].error = "", ![f].success = Null, ![f].loading = TRUE,
                      ![f].pc = "upload", ![f].request = Len(requests) + 1,
                      ![f].idx = 1, ![f].uploadedCount = 0,
                      ![f].amount = amount, ![f].approvedAmount = approvedAmount,
                      ![f].submittedFiles = form[f].files,
                      ![f].offeredAtSubmit = form[f].offered]
             \/ /\ form' = [form EXCEPT ![f] = RequestFailed(form[f])]
                /\ UNCHANGED <<now, requests, capAtSubmit, hotels>>

InsertAuditMutantOverwrite(log, entry) == <<entry>>

\* supabase.from('audit_logs').insert(entry): audit_logs has an insert policy
\* and no update or delete policy
InsertAudit(log, entry) == Append(log, entry)

MayAttachMutantAnyStatus(consultantId, requestId) ==
  requests[requestId].consultant_id = consultantId

\* policy "Consultants can upload attachments to own reimbursements"
MayAttach(consultantId, requestId) ==
  /\ requests[requestId].consultant_id = consultantId
  /\ requests[requestId].status = "pending"

CountMutantEveryFile(n, attached) == n + 1

\* uploadedCount++ only when the attachment row was inserted
NextUploadedCount(n, attached) == IF attached THEN n + 1 ELSE n

\* one iteration of the upload loop: storage upload, then attachment insert
uploadFile(f, uploadOk, insertOk) ==
  /\ form[f].pc = "upload"
  /\ LET file == form[f].submittedFiles[form[f].idx]
         rid == form[f].request
         attached == uploadOk /\ insertOk /\ MayAttach(FormConsultant(f), rid)
     IN /\ stored' = IF uploadOk
                       THEN Append(stored, [request |-> rid, file_name |-> file.name])
                       ELSE stored
        /\ attachments' = IF attached
                            THEN Append(attachments,
                                   [reimbursement_id |-> rid,
                                    file_name |-> file.name,
                                    file_size |-> file.size])
                            ELSE attachments
        /\ form' = [form EXCEPT
              ![f].uploadedCount = NextUploadedCount(@, attached),
              ![f].idx = @ + 1,
              ![f].pc = IF form[f].idx = Len(form[f].submittedFiles)
                          THEN "finish" ELSE "upload"]
  /\ UNCHANGED <<now, dbSearch, requests, audit_logs, capAtSubmit, mgr, views, hotels>>

TotalMutantConstant(files) == MaxFiles + 1

\* the y of "x/y files uploaded"
TotalCount(files) == Len(files)

SubmittedDetailsMutantTotal(fm) ==
  [submitted_amount |-> fm.amount,
   approved_amount |-> fm.approvedAmount,
   files_uploaded |-> Len(fm.submittedFiles)]

\* the details of the reimbursement_submitted audit entry
SubmittedDetails(fm) ==
  [submitted_amount |-> fm.amount,
   approved_amount |-> fm.approvedAmount,
   files_uploaded |-> fm.uploadedCount]

\* the rest of handleSubmit: audit insert, success message, form reset
finishSubmit(f, auditOk) ==
  /\ form[f].pc = "finish"
  /\ audit_logs' =
       IF auditOk
         THEN InsertAudit(audit_logs,
                [action |-> "reimbursement_submitted",
                 entity_id |-> form[f].request,
                 details |-> SubmittedDetails(form[f])])
         ELSE audit_logs
  /\ form' = [form EXCEPT ![f] =
        [IdleForm EXCEPT
           !.priceCap = form[f].priceCap,
           !.priceWarning = form[f].priceWarning,
           !.request = form[f].request,
           !.offeredAtSubmit = form[f].offeredAtSubmit,
           !.error = form[f].error,
           !.success = Some([uploadedCount |-> form[f].uploadedCount,
                             totalCount |-> TotalCount(form[f].submittedFiles),
                             amount |-> form[f].amount,
                             approvedAmount |-> form[f].approvedAmount])]]
  /\ UNCHANGED <<now, dbSearch, requests, attachments, stored, capAtSubmit, mgr, views, hotels>>

\* setTimeout(() => setSuccess(''), 6000)
successTimeout(f) ==
  /\ IsSet(form[f].success)
  /\ form' = [form EXCEPT ![f].success = Null]
  /\ UNCHANGED <<now, dbSearch, dbClaims, mgr, views, hotels>>

\* ------------------------------------------- ReimbursementManager (admin)
\* the sessions that issue the manager's requests: the admins and the signed-in
\* user of consultant con1
Sessions == Admins \cup {"user1"}

\* the sessions that take part in the specifications of the access rules and
\* of the hotel search
AccessSessions == {"admin1", "user1"}

IdleMgr ==
  [requests |-> <<>>, reviewingId |-> Null, reviewNotes |-> <<>>,
   rejectionReason |-> <<>>, pc |-> "idle", outcome |-> "none"]

\* rows ordered by submission_date descending
RECURSIVE Reverse(_)
Reverse(s) == IF s = <<>> THEN <<>> ELSE Append(Reverse(Tail(s)), s[1])

Listed(a, id) == \E i \in 1..Len(mgr[a].requests) : mgr[a].requests[i].id = id

ListedRow(a, id) ==
  mgr[a].requests[CHOOSE i \in 1..Len(mgr[a].requests) : mgr[a].requests[i].id = id]

loadReimbursements(a) ==
  /\ mgr[a].pc = "idle"
  /\ mgr[a].requests # Reverse(VisibleRequests(a))
  /\ mgr' = [mgr EXCEPT ![a].requests = Reverse(VisibleRequests(a))]
  /\ UNCHANGED <<now, dbSearch, dbClaims, form, views, hotels>>

\* the "Review Request" button, rendered for a listed pending request
openReview(a, id) ==
  /\ mgr[a].pc = "idle"
  /\ Listed(a, id)
  /\ mgr[a].reviewingId # Some(id)
  /\ ListedRow(a, id).status = "pending"
  /\ mgr' = [mgr EXCEPT ![a].reviewingId = Some(id)]
  /\ UNCHANGED <<now, dbSearch, dbClaims, form, views, hotels>>

\* the review panel is rendered for the listed request with id = reviewingId
PanelOpen(a) ==
  /\ mgr[a].pc = "idle"
  /\ IsSet(mgr[a].reviewingId)
  /\ Listed(a, Val(mgr[a].reviewingId))

setReviewNotes(a, text) ==
  /\ PanelOpen(a)
  /\ text # mgr[a].reviewNotes
  /\ mgr' = [mgr EXCEPT ![a].reviewNotes = text]
  /\ UNCHANGED <<now, dbSearch, dbClaims, form, views, hotels>>

setRejectionReason(a, text) ==
  /\ PanelOpen(a)
  /\ text # mgr[a].rejectionReason
  /\ mgr' = [mgr EXCEPT ![a].rejectionReason = text]
  /\ UNCHANGED <<now, dbSearch, dbClaims, form, views, hotels>>

cancelReview(a) ==
  /\ PanelOpen(a)
  /\ mgr' = [mgr EXCEPT ![a].reviewingId = Null,
                        ![a].reviewNotes = <<>>,
                        ![a].rejectionReason = <<>>]
  /\ UNCHANGED <<now, dbSearch, dbClaims, form, views, hotels>>

\* the rows an update ... .eq('id', id) of session a writes to
UpdateTargets(a, id) ==
  {i \in 1..Len(requests) : requests[i].id = id /\ MayUpdateRequest(a, requests[i])}

ApproveAmountMutantDouble(row) == 2 * row.submitted_amount

\* the Approve button passes request.submitted_amount as approvedAmount
ButtonApprovedAmount(row) == row.submitted_amount

ApprovedRowMutantNoDate(row, approvedAmount, notes, date) ==
  [row EXCEPT !.status = "approved",
              !.approved_amount = Some(approvedAmount),
              !.notes = Some(notes)]

\* .update({ status: 'approved', approved_amount, review_date, notes })
ApprovedRow(row, approvedAmount, notes, date) ==
  [row EXCEPT !.status = "approved",
              !.approved_amount = Some(approvedAmount),
              !.review_date = Some(date),
              !.notes = Some(notes)]

\* .update({ status: 'rejected', review_date, rejection_reason, notes })
RejectedRow(row, reason, notes, date) ==
  [row EXCEPT !.status = "rejected",
              !.review_date = Some(date),
              !.rejection_reason = Some(reason),
              !.notes = Some(notes)]

\* handleApprove up to its first await: the status update
handleApprove(a, updateOk) ==
  /\ PanelOpen(a)
  /\ LET id == Val(mgr[a].reviewingId)
         approvedAmount == ButtonApprovedAmount(ListedRow(a, id))
     IN IF updateOk
          THEN /\ requests' =
                    [i \in 1..Len(requests) |->
                       IF i \in UpdateTargets(a, id)
                         THEN ApprovedRow(requests[i], approvedAmount,
                                          mgr[a].reviewNotes, now)
                         ELSE requests[i]]
               /\ now' = now + 1
               /\ mgr' = [mgr EXCEPT ![a].pc = "approve_audit",
                                     ![a].outcome = "none"]
          ELSE /\ mgr' = [mgr EXCEPT ![a].outcome = "error"]
               /\ UNCHANGED <<now, requests, hotels>>
  /\ UNCHANGED <<dbSearch, attachments, stored, audit_logs, capAtSubmit, form, views, hotels>>

AuditOutcomeMutantThrow(auditOk) == IF auditOk THEN "ok" ELSE "error"

\* the result of the audit insert is awaited and dropped: the handler goes on
\* to its success path whether or not the insert returned an error
AuditOutcome(auditOk) == "ok"

\* the rest of handleApprove: audit insert, panel reset, reload
approveAudit(a, auditOk) ==
  /\ mgr[a].pc = "approve_audit"
  /\ audit_logs' =
       IF auditOk
         THEN InsertAudit(audit_logs,
                [action |-> "reimbursement_approved",
                 entity_id |-> Val(mgr[a].reviewingId),
                 details |-> [approved_amount |->
                                ButtonApprovedAmount(ListedRow(a, Val(mgr[a].reviewingId))),
                              notes |-> mgr[a].reviewNotes]])
         ELSE audit_logs
  /\ mgr' = [mgr EXCEPT ![a].reviewingId = Null,
                        ![a].reviewNotes = <<>>,
                        ![a].requests = Reverse(VisibleRequests(a)),
                        ![a].pc = "idle",
                        ![a].outcome = AuditOutcome(auditOk)]
  /\ UNCHANGED <<now, dbSearch, requests, attachments, stored, capAtSubmit, form, views, hotels>>

BlankMutantEmptyOnly(reason) == reason = <<>>

\* !rejectionReason.trim()
BlankReason(reason) == trim(reason) = <<>>

\* handleReject up to its first await: validation, then the status update
handleReject(a, updateOk) ==
  /\ PanelOpen(a)
  /\ LET id == Val(mgr[a].reviewingId)
     IN IF BlankReason(mgr[a].rejectionReason)
          THEN /\ mgr' = [mgr EXCEPT ![a].outcome = "alert"]
               /\ UNCHANGED <<now, requests, hotels>>
        ELSE IF updateOk
          THEN /\ requests' =
                    [i \in 1..Len(requests) |->
                       IF i \in UpdateTargets(a, id)
                         THEN RejectedRow(requests[i], mgr[a].rejectionReason,
                                          mgr[a].reviewNotes, now)
                         ELSE requests[i]]
               /\ now' = now + 1
               /\ mgr' = [mgr EXCEPT ![a].pc = "reject_audit",
                                     ![a].outcome = "none"]
          ELSE /\ mgr' = [mgr EXCEPT ![a].outcome = "error"]
               /\ UNCHANGED <<now, requests, hotels>>
  /\ UNCHANGED <<dbSearch, attachments, stored, audit_logs, capAtSubmit, form, views, hotels>>

rejectAudit(a, auditOk) ==
  /\ mgr[a].pc = "reject_audit"
  /\ audit_logs' =
       IF auditOk
         THEN InsertAudit(audit_logs,
                [action |-> "reimbursement_rejected",
                 entity_id |-> Val(mgr[a].reviewingId),
                 details |-> [rejection_reason |-> mgr[a].rejectionReason,
                              notes |-> mgr[a].reviewNotes]])
         ELSE audit_logs
  /\ mgr' = [mgr EXCEPT ![a].reviewingId = Null,
                        ![a].rejectionReason = <<>>,
                        ![a].reviewNotes = <<>>,
                        ![a].requests = Reverse(VisibleRequests(a)),
                        ![a].pc = "idle",
                        ![a].outcome = AuditOutcome(auditOk)]
  /\ UNCHANGED <<now, dbSearch, requests, attachments, stored, capAtSubmit, form, views, hotels>>

\* ------------------------------------------------ quotes shown to the users
\* .limit(3) of the flight_options queries
OptionsLimit == 3

\* the provider answers of the specification that follows the quotes shown
QuoteBatches == {<<>>, <<4, 2>>, <<4, 2, 4, 2>>}

IdleAssignment == [flight_searches |-> <<>>, flight_options_count |-> 0]

SearchIdsOf(assignmentId) ==
  {i \in 1..Len(flight_searches) : flight_searches[i].assignment_id = assignmentId}

\* .order('price', { ascending: true })
RECURSIVE InsertByPrice(_, _)
InsertByPrice(option, sorted) ==
  IF sorted = <<>> THEN <<option>>
  ELSE IF option.price <= sorted[1].price THEN <<option>> \o sorted
  ELSE <<sorted[1]>> \o InsertByPrice(option, Tail(sorted))

RECURSIVE OrderByPrice(_)
OrderByPrice(options) ==
  IF options = <<>> THEN <<>>
  ELSE InsertByPrice(options[1], OrderByPrice(Tail(options)))

Limit(rows, n) == SubSeq(rows, 1, Min(n, Len(rows)))

\* flight_options of one search, .order('price').limit(3)
CheapestOptions(searchId) == Limit(OrderByPrice(QuotesOf(searchId)), OptionsLimit)

\* flight_searches of the assignment, .order('executed_at', { ascending:
\* false }).limit(1)
LatestSearches(assignmentId) ==
  IF SearchIdsOf(assignmentId) = {} THEN <<>>
  ELSE <<CHOOSE i \in SearchIdsOf(assignmentId) :
           \A j \in SearchIdsOf(assignmentId) :
              flight_searches[j].executed_at <= flight_searches[i].executed_at>>

\* ConsultantPortal.loadConsultantData for one of the consultant's assignments
loadConsultantData(assignmentId) ==
  /\ LET searches == LatestSearches(assignmentId)
         options == IF Len(searches) > 0 THEN CheapestOptions(searches[1]) ELSE <<>>
     IN  portalAssignments' = [portalAssignments EXCEPT ![assignmentId] = options]
  /\ UNCHANGED <<now, dbSearch, dbClaims, form, mgr,
                 adminAssignments, displayOptions, statusRequests, hotels>>

\* the orders in which the embedded resource flight_searches(id, executed_at),
\* selected without an order, can come back
EmbeddedOrders(assignmentId) ==
  LET ids == SearchIdsOf(assignmentId)
  IN  {order \in [1..Cardinality(ids) -> ids] :
         \A i, j \in 1..Cardinality(ids) : order[i] = order[j] => i = j}

\* AssignmentsManager.loadAssignments: the first embedded search is taken as
\* latestSearch and its options are counted
loadAssignments(assignmentId, order) ==
  /\ order \in EmbeddedOrders(assignmentId)
  /\ adminAssignments' = [adminAssignments EXCEPT ![assignmentId] =
        [flight_searches |->
           [i \in 1..Len(order) |->
              [id |-> order[i], executed_at |-> flight_searches[order[i]].executed_at]],
         flight_options_count |->
           IF Len(order) > 0 THEN Len(QuotesOf(order[1])) ELSE 0]]
  /\ UNCHANGED <<now, dbSearch, dbClaims, form, mgr,
                 portalAssignments, displayOptions, statusRequests, hotels>>

\* FlightOptionsDisplay.loadFlightOptions with searchId = flight_searches[0].id
loadFlightOptions(assignmentId) ==
  /\ adminAssignments[assignmentId].flight_searches # <<>>
  /\ displayOptions' = [displayOptions EXCEPT ![assignmentId] =
        CheapestOptions(adminAssignments[assignmentId].flight_searches[1].id)]
  /\ UNCHANGED <<now, dbSearch, dbClaims, form, mgr,
                 portalAssignments, adminAssignments, statusRequests, hotels>>

\* ------------------------------------------- ReimbursementStatus (consultant)
\* ReimbursementStatus.loadReimbursements: the consultant's requests, newest
\* first, each with the attachments found for it
ReimbursementStatus_loadReimbursements(consultantId) ==
  /\ LET user == ConsultantUser(consultantId)
         data == Reverse(SelectSeq(VisibleRequests(user),
                                   LAMBDA row : row.consultant_id = consultantId))
         requestsWithAttachments ==
           [i \in 1..Len(data) |->
              [request |-> data[i],
               attachments |->
                 SelectSeq(VisibleAttachments(user),
                           LAMBDA att : att.reimbursement_id = data[i].id)]]
     IN  /\ statusRequests[consultantId] # requestsWithAttachments
         /\ statusRequests' =
               [statusRequests EXCEPT ![consultantId] = requestsWithAttachments]
  /\ UNCHANGED <<now, dbSearch, dbClaims, form, mgr,
                 portalAssignments, adminAssignments, displayOptions, hotels>>

\* ------------------------------------------------- HotelSearchPanel (admin)
\* hotelData.data.slice(0, 5)
HotelLimit == 5

\* the answers of the search-hotels function: no data field, or a list of
\* hotels, each given by the total price of its first offer
HotelResponses == {Null, Some(<<>>), Some(<<5>>), Some(<<5, 7, 5, 7, 5, 7>>)}

\* the panel's state and, of a running handleSearch, its position and the id
\* of the search row it inserted
IdleHotelPanel ==
  [searching |-> FALSE, error |-> "", success |-> Null, pc |-> "idle", search |-> 0]

\* policy "Admins can insert hotel searches"
MayInsertHotelSearch(user) == isAdmin(user)

\* policy "Admins can insert hotel options"
MayInsertHotelOptions(user) == isAdmin(user)

\* handleSearch up to the request to the search-hotels function: the
\* assignment is read, then the hotel_searches row is inserted
handleSearch(a, assignmentId, found, insertOk) ==
  /\ hotelPanel[a].pc = "idle"
  /\ Len(hotel_searches) < MaxHotelSearches
  /\ IF ~found
       THEN /\ hotelPanel' = [hotelPanel EXCEPT ![a] =
                  [IdleHotelPanel EXCEPT !.error = "Assignment not found"]]
            /\ UNCHANGED <<now, hotel_searches>>
     ELSE IF insertOk /\ MayInsertHotelSearch(a)
       THEN /\ hotel_searches' = Append(hotel_searches,
                  [assignment_id |-> assignmentId, executed_at |-> now])
            /\ now' = now + 1
            /\ hotelPanel' = [hotelPanel EXCEPT ![a] =
                  [IdleHotelPanel EXCEPT !.searching = TRUE, !.pc = "fetch",
                                         !.search = Len(hotel_searches) + 1]]
       ELSE /\ hotelPanel' = [hotelPanel EXCEPT ![a] =
                  [IdleHotelPanel EXCEPT !.error = "searchError"]]
            /\ UNCHANGED <<now, hotel_searches>>
  /\ UNCHANGED <<dbSearch, dbClaims, form, mgr, views, hotel_options>>

NoneFoundMutantNoData(data) == ~IsSet(data)

\* !hotelData.data || hotelData.data.length === 0
NoneFound(data) == ~IsSet(data) \/ Len(Val(data)) = 0

\* the hotel_options rows built from the first HotelLimit hotels
HotelOptionRows(searchId, hotelList) ==
  [i \in 1..Min(HotelLimit, Len(hotelList)) |->
     [search_id |-> searchId, hotel_id |-> i, total_price |-> hotelList[i]]]

\* the rest of handleSearch: the answer of search-hotels, then the insert of
\* the options
searchHotels(a, responseOk, data, insertOk) ==
  /\ hotelPanel[a].pc = "fetch"
  /\ LET done == [hotelPanel[a] EXCEPT !.searching = FALSE, !.pc = "idle"]
         hotelOptions == HotelOptionRows(hotelPanel[a].search, Val(data))
     IN IF ~responseOk
          THEN /\ hotelPanel' = [hotelPanel EXCEPT ![a] =
                     [done EXCEPT !.error = "Failed to search hotels"]]
               /\ UNCHANGED hotel_options
        ELSE IF NoneFound(data)
          THEN /\ hotelPanel' = [hotelPanel EXCEPT ![a] =
                     [done EXCEPT !.success = Some([kind |-> "none_found", count |-> 0])]]
               /\ UNCHANGED hotel_options
        ELSE IF insertOk /\ MayInsertHotelOptions(a)
          THEN /\ hotel_options' = hotel_options \o hotelOptions
               /\ hotelPanel' = [hotelPanel EXCEPT ![a] =
                     [done EXCEPT !.success =
                        Some([kind |-> "found", count |-> Len(hotelOptions)])]]
          ELSE /\ hotelPanel' = [hotelPanel EXCEPT ![a] =
                     [done EXCEPT !.error = "optionsError"]]
               /\ UNCHANGED hotel_options
  /\ UNCHANGED <<now, dbSearch, dbClaims, form, mgr, views, hotel_searches>>

\* setTimeout(() => setSuccess(''), 5000) after options were found
hotelSuccessTimeout(a) ==
  /\ hotelPanel[a].pc = "idle"
  /\ IsSet(hotelPanel[a].success)
  /\ Val(hotelPanel[a].success).kind = "found"
  /\ hotelPanel' = [hotelPanel EXCEPT ![a].success = Null]
  /\ UNCHANGED <<now, dbSearch, dbClaims, form, mgr, views, hotel_searches, hotel_options>>

\* setTimeout(() => setError(''), 5000) after an error
hotelErrorTimeout(a) ==
  /\ hotelPanel[a].pc = "idle"
  /\ hotelPanel[a].error # ""
  /\ hotelPanel' = [hotelPanel EXCEPT ![a].error = ""]
  /\ UNCHANGED <<now, dbSearch, dbClaims, form, mgr, views, hotel_searches, hotel_options>>

\* ----------------------------------------------------------- specification
Init ==
  /\ now = 1
  /\ flight_searches = <<>>
  /\ flight_options = <<>>
  /\ price_caps = <<>>
  /\ capResult = "none"
  /\ requests = <<>>
  /\ attachments = <<>>
  /\ stored = <<>>
  /\ audit_logs = <<>>
  /\ capAtSubmit = <<>>
  /\ form = [f \in Forms |-> IdleForm]
  /\ mgr = [a \in Sessions |-> IdleMgr]
  /\ portalAssignments = [asg \in Assignments |-> <<>>]
  /\ adminAssignments = [asg \in Assignments |-> IdleAssignment]
  /\ displayOptions = [asg \in Assignments |-> <<>>]
  /\ statusRequests = [c \in Consultants |-> <<>>]
  /\ hotel_searches = <<>>
  /\ hotel_options = <<>>
  /\ hotelPanel = [a \in AccessSessions |-> IdleHotelPanel]

\* the flight search and cap steps with every provider answer
NextCap ==
  \/ \E asg \in Assignments, quotes \in SeqsUpTo(Prices, MaxQuotes) :
        RecordSearch(asg, quotes)
  \/ \E searchId \in 1..Len(flight_searches) : SetCapFromSearch(searchId)
  \/ \E f \in PipelineForms : LoadPriceCap(f)

\* the same steps with the provider answers of PipelineQuotes
PipelineCap ==
  \/ \E asg \in Assignments, quotes \in PipelineQuotes :
        Len(flight_searches) < PipelineSearches /\ RecordSearch(asg, quotes)
  \/ \E searchId \in 1..Len(flight_searches) : SetCapFromSearch(searchId)
  \/ \E f \in PipelineForms : LoadPriceCap(f)

\* submission with every form input, typed while no submit is running, and
\* every storage outcome
NextSubmit ==
  \/ PipelineCap
  \/ \E f \in PipelineForms, value \in AmountInputs :
        form[f].pc = "idle" /\ handleAmountChange(f, value)
  \/ \E f \in PipelineForms, sizes \in SeqsUpTo(FileSizes, MaxFiles) :
        form[f].pc = "idle" /\ handleFileSelect(f, sizes)
  \/ \E f \in PipelineForms : handleSubmit(f) /\ Len(requests') <= PipelineRequests
  \/ \E f \in PipelineForms, uploadOk \in BOOLEAN, insertOk \in BOOLEAN :
        uploadFile(f, uploadOk, insertOk)
  \/ \E f \in PipelineForms, auditOk \in BOOLEAN : finishSubmit(f, auditOk)
  \/ \E f \in PipelineForms : successTimeout(f)

\* the forms in F filled in for at most n submissions in all, with storage
\* that works
FillAndSubmitBy(F, amounts, n) ==
  \/ \E f \in F, value \in amounts :
        Len(requests) < n /\ form[f].pc = "idle" /\ handleAmountChange(f, value)
  \/ \E f \in F, sizes \in ReviewFiles :
        Len(requests) < n /\ form[f].pc = "idle" /\ handleFileSelect(f, sizes)
  \/ \E f \in F : handleSubmit(f) /\ Len(requests') <= n
  \/ \E f \in F : uploadFile(f, TRUE, TRUE)
  \/ \E f \in F : finishSubmit(f, TRUE)

\* one form filled in for one submission
FillAndSubmit(amounts) == FillAndSubmitBy(PipelineForms, amounts, PipelineRequests)

\* the review panel of the admins in A, who type the given notes and reasons,
\* with the given outcomes of the update and of the audit insert
ReviewWith(A, notes, reasons, outcomes) ==
  \/ \E a \in A : loadReimbursements(a)
  \/ \E a \in A, id \in 1..Len(requests) : openReview(a, id)
  \/ \E a \in A, text \in notes : setReviewNotes(a, text)
  \/ \E a \in A, text \in reasons : setRejectionReason(a, text)
  \/ \E a \in A : cancelReview(a)
  \/ \E a \in A, updateOk \in outcomes : handleApprove(a, updateOk)
  \/ \E a \in A, auditOk \in outcomes : approveAudit(a, auditOk)
  \/ \E a \in A, updateOk \in outcomes : handleReject(a, updateOk)
  \/ \E a \in A, auditOk \in outcomes : rejectAudit(a, auditOk)

\* the review panel of the admins in A
ReviewBy(A) == ReviewWith(A, NoteInputs, ReasonInputs, BOOLEAN)

\* cap, submission and one reviewer
NextReview == PipelineCap \/ FillAndSubmit(ReviewAmounts) \/ ReviewBy(ReviewAdmins)

\* submission and two reviewers working at the same time
NextRace == FillAndSubmit(RaceAmounts) \/ ReviewBy(Admins)

SpecCap == Init /\ [][NextCap]_vars
SpecSubmit == Init /\ [][NextSubmit]_vars
SpecReview == Init /\ [][NextReview]_vars
\* submission and one reviewer, with audit inserts that fail or succeed
NextAudit ==
  \/ FillAndSubmit(RaceAmounts)
  \/ \E f \in PipelineForms : finishSubmit(f, FALSE)
  \/ ReviewBy(ReviewAdmins)

SpecRace == Init /\ [][NextRace]_vars
SpecAudit == Init /\ [][NextAudit]_vars

\* searches and the two views of their quotes
NextQuotes ==
  \/ \E asg \in Assignments, quotes \in QuoteBatches : RecordSearch(asg, quotes)
  \/ \E asg \in Assignments : loadConsultantData(asg)
  \/ \E asg \in Assignments, order \in SeqsUpTo(1..MaxSearches, MaxSearches) :
        loadAssignments(asg, order)
  \/ \E asg \in Assignments : loadFlightOptions(asg)

SpecQuotes == Init /\ [][NextQuotes]_vars

\* a session that loads the list, opens a review panel and approves, while
\* the audit trail has room for the entry of one more approve
ApproveBy(A) ==
  \/ \E a \in A : loadReimbursements(a)
  \/ \E a \in A, id \in 1..Len(requests) : openReview(a, id)
  \/ \E a \in A : Len(audit_logs) < MaxAuditEntries /\ handleApprove(a, TRUE)
  \/ \E a \in A : approveAudit(a, TRUE)

\* a consultant submits; an admin and the consultant's own user issue the
\* manager's requests
NextAccess == FillAndSubmit(RaceAmounts) \/ ApproveBy(AccessSessions)

SpecAccess == Init /\ [][NextAccess]_vars

\* two consultants submit one claim each; the consultants, an admin and a
\* consultant's user in the manager look at the claims
NextView ==
  \/ FillAndSubmitBy(PipelineForms, RaceAmounts, PipelineRequests)
  \/ FillAndSubmitBy(Forms \ PipelineForms, RaceAmounts, MaxRequests)
  \/ \E a \in AccessSessions : loadReimbursements(a)
  \/ \E c \in Consultants : ReimbursementStatus_loadReimbursements(c)

SpecView == Init /\ [][NextView]_vars

\* the amount, the notes and the reason typed where one consultant submits
\* several claims against one assignment
PanelAmounts == {<<"2">>}
PanelNotes == {<<"n">>}
PanelReasons == {<<"r">>}

\* a cap is set, then one consultant submits MaxRequests claims against the
\* assignment, then one admin reviews them, with storage that works
NextPanel ==
  \/ requests = <<>> /\ PipelineCap
  \/ FillAndSubmitBy(PipelineForms, PanelAmounts, MaxRequests)
  \/ /\ Len(requests) = MaxRequests
     /\ \A f \in PipelineForms : form[f].pc = "idle"
     /\ ReviewWith(ReviewAdmins, PanelNotes, PanelReasons, {TRUE})

SpecPanel == Init /\ [][NextPanel]_vars

\* an admin and a consultant's user run hotel searches with every answer of
\* the provider and of the database
NextHotel ==
  \/ \E a \in AccessSessions, asg \in Assignments,
          found \in BOOLEAN, insertOk \in BOOLEAN :
        handleSearch(a, asg, found, insertOk)
  \/ \E a \in AccessSessions, responseOk \in BOOLEAN,
          data \in HotelResponses, insertOk \in BOOLEAN :
        searchHotels(a, responseOk, data, insertOk)
  \/ \E a \in AccessSessions : hotelSuccessTimeout(a)
  \/ \E a \in AccessSessions : hotelErrorTimeout(a)

SpecHotel == Init /\ [][NextHotel]_vars

\* the steps of a running submit that follow an await
ContinueSubmit(f) ==
  \/ \E uploadOk \in BOOLEAN, insertOk \in BOOLEAN : uploadFile(f, uploadOk, insertOk)
  \/ \E auditOk \in BOOLEAN : finishSubmit(f, auditOk)

\* a consultant who goes on typing and picking files while a submit runs,
\* with every storage outcome
NextLoading ==
  \/ \E f \in PipelineForms, value \in RaceAmounts : handleAmountChange(f, value)
  \/ \E f \in PipelineForms, sizes \in SeqsUpTo(FileSizes, MaxFiles) :
        handleFileSelect(f, sizes)
  \/ \E f \in PipelineForms : handleSubmit(f) /\ Len(requests') <= PipelineRequests
  \/ \E f \in PipelineForms : ContinueSubmit(f)
  \/ \E f \in PipelineForms : successTimeout(f)

\* every request the handler awaits is answered, with a result or an error,
\* and the handler then runs on to its next await
SpecLoading ==
  /\ Init
  /\ [][NextLoading]_vars
  /\ \A f \in PipelineForms : WF_vars(ContinueSubmit(f))

\* ------------------------------------------------------------------ claims
ApprovedEntries(id) ==
  Count(audit_logs, LAMBDA e : e.action = "reimbursement_approved" /\ e.entity_id = id)

ApprovePassed(a, id) ==
  mgr[a].pc = "approve_audit" /\ mgr[a].reviewingId = Some(id)

\* C1: of two approve calls running at the same time against one claim at
\* most one gets its status update through, and the audit trail never holds
\* more than one reimbursement_approved entry for a claim.
C1_OneApproveWins ==
  \A id \in 1..Len(requests) :
    /\ ApprovedEntries(id) <= 1
    /\ \A a, b \in Admins : ApprovePassed(a, id) /\ ApprovePassed(b, id) => a = b

ReviewEntries(id) ==
  Count(audit_logs, LAMBDA e : e.entity_id = id /\ e.action # "reimbursement_submitted")

\* C2: once a claim is approved, rejected or paid, no approve or reject
\* changes its row (status, approved_amount, rejection_reason, notes,
\* review_date), and no second review entry is appended to its audit trail.
C2_TerminalClaimFrozen ==
  /\ [][\A id \in 1..Len(requests) :
          requests[id].status \in TerminalStatuses => requests'[id] = requests[id]]_vars
  /\ [](\A id \in 1..Len(requests) : ReviewEntries(id) <= 1)

\* C3: a claim's approved_amount, when set, never exceeds its submitted_amount.
C3_ApprovedAtMostSubmitted ==
  \A id \in 1..Len(requests) :
    IsSet(requests[id].approved_amount) =>
      Val(requests[id].approved_amount) <= requests[id].submitted_amount

\* C3 witness: a claim clamped below its amount at submission, then approved
C3_Witness ==
  \E id \in 1..Len(requests) :
    /\ requests[id].status = "approved"
    /\ IsSet(capAtSubmit[id].held)
    /\ Val(capAtSubmit[id].held).max_approved_price < requests[id].submitted_amount
    /\ IsSet(requests[id].approved_amount)

\* C4: a claim whose assignment had an active cap when it was submitted never
\* carries an approved_amount above that cap's max_approved_price, neither
\* after the submission nor after a reviewer's approval.  Stated for the
\* claims submitted from a form that held that very cap.
C4_ApprovedAtMostCap ==
  \A id \in 1..Len(requests) :
    /\ IsSet(capAtSubmit[id].active)
    /\ capAtSubmit[id].held = capAtSubmit[id].active
    /\ IsSet(requests[id].approved_amount)
    => Val(requests[id].approved_amount)
         <= Val(capAtSubmit[id].active).max_approved_price

AllSpaces(text) == \A i \in 1..Len(text) : text[i] = " "

\* C6: a reject whose rejection reason is empty or consists of white space
\* only ends in the validation alert and writes nothing: the claim rows and
\* the audit trail are the same after the step as before it.
C6_BlankRejectWritesNothing ==
  [][\A a \in Admins :
       (handleReject(a, TRUE) \/ handleReject(a, FALSE))
         /\ AllSpaces(mgr[a].rejectionReason)
       => /\ mgr'[a].outcome = "alert"
          /\ mgr'[a].pc = "idle"
          /\ requests' = requests
          /\ audit_logs' = audit_logs]_vars

\* C6 witness: the alert was raised for a reason of white space only, on a
\* claim that is still pending
C6_Witness ==
  \E a \in Admins :
    /\ mgr[a].outcome = "alert"
    /\ mgr[a].rejectionReason = <<" ">>
    /\ IsSet(mgr[a].reviewingId)
    /\ requests[Val(mgr[a].reviewingId)].status = "pending"
    /\ audit_logs = <<[action |-> "reimbursement_submitted", entity_id |-> 1,
                       details |-> [submitted_amount |-> 3, approved_amount |-> 3,
                                    files_uploaded |-> 1]]>>

\* C5: a pending claim carries approved_amount = min(submitted_amount, c),
\* c being the max_approved_price of the cap that was the assignment's active
\* one at the moment of the submission, and approved_amount =
\* submitted_amount when the assignment had no cap at that moment.
C5_ClampedAtActiveCap ==
  \A id \in 1..Len(requests) :
    requests[id].status = "pending" =>
      LET a == requests[id].submitted_amount
          cap == capAtSubmit[id].active
      IN  /\ a > 0
          /\ requests[id].approved_amount =
               Some(IF IsSet(cap) /\ Val(cap).max_approved_price < a
                      THEN Val(cap).max_approved_price ELSE a)

NonPositiveInputs == {<<>>, <<"0">>, <<"-", "1">>}

\* C7: a submit whose amount is empty or not above zero, or whose file list
\* is empty, ends with a validation error and persists nothing: no claim row,
\* no attachment row, no stored file and no audit entry is created.
C7_InvalidSubmitPersistsNothing ==
  [][\A f \in Forms :
       handleSubmit(f)
         /\ (form[f].submittedAmount \in NonPositiveInputs \/ form[f].files = <<>>)
       => /\ form'[f].error \in {"invalid_amount", "no_files"}
          /\ form'[f].pc = "idle"
          /\ ~form'[f].loading
          /\ requests' = requests
          /\ attachments' = attachments
          /\ stored' = stored
          /\ audit_logs' = audit_logs]_vars

\* C7 witness: a submit of amount 0 with a file selected was turned away
C7_Witness ==
  \E f \in Forms :
    /\ form[f].error = "invalid_amount"
    /\ form[f].submittedAmount = <<"0">>
    /\ form[f].files # <<>>
    /\ requests = <<>>

AttachmentsOf(rid) ==
  {i \in 1..Len(attachments) : attachments[i].reimbursement_id = rid}

\* C8: a file whose upload or attachment insert fails is skipped and the
\* submission goes on: while the loop runs and when the submit has ended, the
\* claim row exists, uploadedCount equals the number of attachment rows stored
\* for the claim, and the feedback reports that count out of the files sent.
C8_FailedFilesSkipped ==
  \A f \in Forms :
    /\ form[f].pc \in {"upload", "finish"} =>
         /\ form[f].request \in 1..Len(requests)
         /\ form[f].uploadedCount = Cardinality(AttachmentsOf(form[f].request))
    /\ IsSet(form[f].success) =>
         /\ form[f].request \in 1..Len(requests)
         /\ Val(form[f].success).uploadedCount
              = Cardinality(AttachmentsOf(form[f].request))
         /\ Val(form[f].success).uploadedCount <= Val(form[f].success).totalCount

\* C8 witness: of two files the first failed and the second, sent
\* after it, has its attachment; the feedback reads 1/2
C8_Witness ==
  \E f \in Forms :
    /\ IsSet(form[f].success)
    /\ Val(form[f].success).uploadedCount = 1
    /\ Val(form[f].success).totalCount = 2
    /\ \E i \in AttachmentsOf(form[f].request) : attachments[i].file_name = 2
    /\ Len(requests) = 1

Oversized(sizes) == Count(sizes, LAMBDA size : size > 10485760)

\* C9 as stated: the feedback's totalCount is the number n of files the
\* consultant supplied, the oversized ones included.
C9_TotalCountsEveryFile ==
  \A f \in Forms :
    IsSet(form[f].success) =>
      Val(form[f].success).totalCount = Len(form[f].offeredAtSubmit)

\* C9 amended: of n files supplied, the k above 10 MiB are dropped when they
\* are selected; the claim is created and the feedback's totalCount is n - k,
\* uploadedCount is at most n - k, and no attachment is above 10 MiB.
C9_TotalCountsAcceptedFiles ==
  \A f \in Forms :
    IsSet(form[f].success) =>
      LET n == Len(form[f].offeredAtSubmit)
          k == Oversized(form[f].offeredAtSubmit)
      IN  /\ k < n
          /\ form[f].request \in 1..Len(requests)
          /\ Val(form[f].success).totalCount = n - k
          /\ Val(form[f].success).uploadedCount <= n - k
          /\ \A i \in AttachmentsOf(form[f].request) :
               attachments[i].file_size <= 10485760

\* C9 witness: two files supplied, one oversized; the feedback reads 1/1
C9_Witness ==
  \E f \in Forms :
    /\ IsSet(form[f].success)
    /\ Len(form[f].offeredAtSubmit) = 2
    /\ Oversized(form[f].offeredAtSubmit) = 1
    /\ Val(form[f].success).uploadedCount = 1
    /\ Val(form[f].success).totalCount = 1

IsMinOf(v, prices) ==
  /\ \E i \in 1..Len(prices) : prices[i] = v
  /\ \A i \in 1..Len(prices) : v <= prices[i]

\* C10: setCapFromSearch on a search with quotes appends one cap row that
\* references the search and whose max_approved_price is the lowest quote
\* price; on a search without quotes it fails with NoQuotesError, creates no
\* cap row and leaves the assignment's active cap as it was.
C10_CapIsCheapestQuote ==
  [][\A sid \in 1..Len(flight_searches) :
       SetCapFromSearch(sid) =>
         IF \A i \in 1..Len(flight_options) : flight_options[i].search_id # sid
           THEN /\ capResult' = "NoQuotesError"
                /\ price_caps' = price_caps
                /\ activeCapFor(flight_searches[sid].assignment_id)'
                     = activeCapFor(flight_searches[sid].assignment_id)
           ELSE /\ capResult' = "ok"
                /\ Len(price_caps') = Len(price_caps) + 1
                /\ SubSeq(price_caps', 1, Len(price_caps)) = price_caps
                /\ price_caps'[Len(price_caps')].search_id = sid
                /\ price_caps'[Len(price_caps')].assignment_id
                     = flight_searches[sid].assignment_id
                /\ IsMinOf(price_caps'[Len(price_caps')].max_approved_price,
                           PricesOf(sid))]_vars

\* C10 witness: a cap of 2 from the quotes 4, 2 is in place and a later
\* setCapFromSearch on a search without quotes has failed
C10_Witness ==
  /\ capResult = "NoQuotesError"
  /\ \E i \in 1..Len(price_caps) :
       /\ price_caps[i].max_approved_price = 2
       /\ PricesOf(price_caps[i].search_id) = <<4, 2>>

\* C11: the cap history is append-only: a step never removes or rewrites a cap
\* row, so every row keeps its max_approved_price; and activeCapFor gives, for
\* an assignment with cap rows, the one row of it whose set_at is later than
\* that of all its other rows, and none for an assignment without cap rows.
C11_CapHistoryAppendOnly ==
  /\ [][/\ Len(price_caps') >= Len(price_caps)
        /\ SubSeq(price_caps', 1, Len(price_caps)) = price_caps]_vars
  /\ [](\A asg \in Assignments :
          IF \A i \in 1..Len(price_caps) : price_caps[i].assignment_id # asg
            THEN activeCapFor(asg) = Null
            ELSE \E i \in 1..Len(price_caps) :
                   /\ price_caps[i].assignment_id = asg
                   /\ activeCapFor(asg) = Some(price_caps[i])
                   /\ \A j \in 1..Len(price_caps) :
                        j # i /\ price_caps[j].assignment_id = asg
                          => price_caps[j].set_at < price_caps[i].set_at)

\* C11 witness: a cap of 2 was superseded by a cap of 4 from a later search;
\* both rows exist and the later one is the active cap
C11_Witness ==
  /\ Len(price_caps) = 2
  /\ price_caps[1].max_approved_price = 2
  /\ price_caps[2].max_approved_price = 4
  /\ price_caps[1].assignment_id = price_caps[2].assignment_id
  /\ activeCapFor(price_caps[1].assignment_id) = Some(price_caps[2])

LegalEdges ==
  {<<"pending", "under_review">>, <<"pending", "approved">>,
   <<"pending", "rejected">>, <<"under_review", "approved">>,
   <<"under_review", "rejected">>, <<"approved", "paid">>}

\* C13: a claim row is created with status pending, and a step that changes
\* the status of a claim takes it along one of the edges pending->under_review,
\* pending->approved, pending->rejected, under_review->approved,
\* under_review->rejected, approved->paid; so rejected never becomes approved
\* and approved never becomes rejected.
C13_LegalTransitions ==
  [][\A id \in 1..Len(requests') :
       IF id > Len(requests)
         THEN requests'[id].status = "pending"
         ELSE requests'[id].status # requests[id].status
                => <<requests[id].status, requests'[id].status>> \in LegalEdges]_vars

RejectedEntries(id) ==
  Count(audit_logs, LAMBDA e : e.action = "reimbursement_rejected" /\ e.entity_id = id)

\* the approve or reject handler of some session is between its status update
\* and its audit insert for claim id
AuditPending(id) ==
  \E a \in DOMAIN mgr :
    mgr[a].pc \in {"approve_audit", "reject_audit"} /\ mgr[a].reviewingId = Some(id)

\* C14: a status change is atomic with its audit entry: once the approve or
\* reject handler has ended, an approved claim has a reimbursement_approved
\* entry and a rejected claim has a reimbursement_rejected entry, also when
\* the audit insert failed.
C14_StatusImpliesAuditEntry ==
  \A id \in 1..Len(requests) :
    ~AuditPending(id) =>
      /\ requests[id].status = "approved" => ApprovedEntries(id) >= 1
      /\ requests[id].status = "rejected" => RejectedEntries(id) >= 1

\* C16: an iteration of the upload loop inserts an attachment row only if the
\* claim belongs to the uploading consultant and is pending at that moment;
\* once a reviewer has approved or rejected the claim, the iterations still to
\* come insert no attachment row and leave uploadedCount as it is.
C16_AttachOnlyWhilePending ==
  [][\A f \in Forms :
       (\E uploadOk \in BOOLEAN, insertOk \in BOOLEAN : uploadFile(f, uploadOk, insertOk))
       => LET rid == form[f].request
          IN  /\ attachments' # attachments =>
                   /\ requests[rid].consultant_id = FormConsultant(f)
                   /\ requests[rid].status = "pending"
                   /\ attachments'[Len(attachments')].reimbursement_id = rid
              /\ requests[rid].status # "pending" =>
                   /\ attachments' = attachments
                   /\ form'[f].uploadedCount = form[f].uploadedCount]_vars

\* C16 witness: of two files the first was attached, the claim was then
\* approved during the loop, and the second file got no row: 1/2
C16_Witness ==
  \E f \in Forms :
    /\ IsSet(form[f].success)
    /\ Val(form[f].success).uploadedCount = 1
    /\ Val(form[f].success).totalCount = 2
    /\ requests[form[f].request].status = "approved"
    /\ Cardinality(AttachmentsOf(form[f].request)) = 1
    /\ Len(stored) = 2

\* C18: rejection_reason is set, and not empty, exactly for the claims whose
\* status is rejected.
C18_ReasonIffRejected ==
  \A id \in 1..Len(requests) :
    (IsSet(requests[id].rejection_reason) /\ Val(requests[id].rejection_reason) # <<>>)
      <=> requests[id].status = "rejected"

\* C19: the audit trail only grows: every step leaves the entries already in
\* audit_logs where and as they are and appends at most at the end.
C19_AuditAppendOnly ==
  [][/\ Len(audit_logs') >= Len(audit_logs)
     /\ SubSeq(audit_logs', 1, Len(audit_logs)) = audit_logs]_vars

\* C19 witness: the trail holds the entry of a submission followed by the
\* entries of a review
C19_Witness ==
  /\ Len(audit_logs) >= 2
  /\ audit_logs[1].action = "reimbursement_submitted"
  /\ audit_logs[2].action \in {"reimbursement_approved", "reimbursement_rejected"}

\* C15: a failed audit insert does not fail the operation it belongs to: the
\* submit keeps its claim and attachments and shows the success message, the
\* approve and the reject keep their status update, close the review panel
\* and end without an error.
C15_AuditFailureSwallowed ==
  [][/\ \A f \in Forms :
          finishSubmit(f, FALSE) =>
            /\ audit_logs' = audit_logs
            /\ requests' = requests
            /\ attachments' = attachments
            /\ requests'[form[f].request].status \in {"pending", "approved", "rejected"}
            /\ IsSet(form'[f].success)
            /\ form'[f].error = ""
            /\ ~form'[f].loading
     /\ \A a \in DOMAIN mgr :
          approveAudit(a, FALSE) =>
            /\ audit_logs' = audit_logs
            /\ requests' = requests
            /\ requests'[Val(mgr[a].reviewingId)].status = "approved"
            /\ mgr'[a].outcome = "ok"
            /\ mgr'[a].reviewingId = Null
     /\ \A a \in DOMAIN mgr :
          rejectAudit(a, FALSE) =>
            /\ audit_logs' = audit_logs
            /\ requests' = requests
            /\ requests'[Val(mgr[a].reviewingId)].status = "rejected"
            /\ mgr'[a].outcome = "ok"
            /\ mgr'[a].reviewingId = Null]_vars

\* C15 witness: the audit inserts of the submit and of the approve both
\* failed; the claim is approved, both operations ended in success
C15_Witness ==
  /\ audit_logs = <<>>
  /\ \E f \in Forms :
       /\ IsSet(form[f].success)
       /\ requests[form[f].request].status = "approved"
  /\ \E a \in DOMAIN mgr : mgr[a].outcome = "ok" /\ mgr[a].pc = "idle"

\* C15 second witness: the audit insert of a reject failed
C15_WitnessReject ==
  /\ audit_logs = <<>>
  /\ \E id \in 1..Len(requests) : requests[id].status = "rejected"
  /\ \E a \in DOMAIN mgr : mgr[a].outcome = "ok" /\ mgr[a].pc = "idle"

\* shown is the cheapest limit quotes of search searchId in ascending order
ShowsCheapest(shown, searchId, limit) ==
  LET quotes == SelectSeq(flight_options, LAMBDA o : o.search_id = searchId)
      InShown(v) == Cardinality({i \in 1..Len(shown) : shown[i].price = v})
      InQuotes(v) == Cardinality({i \in 1..Len(quotes) : quotes[i].price = v})
  IN  /\ Len(shown) = IF Len(quotes) < limit THEN Len(quotes) ELSE limit
      /\ \A i \in 1..Len(shown) : shown[i].search_id = searchId
      /\ \A i, j \in 1..Len(shown) : i < j => shown[i].price <= shown[j].price
      /\ \A v \in Prices :
           /\ InShown(v) <= InQuotes(v)
           /\ InShown(v) < InQuotes(v) => \A i \in 1..Len(shown) : shown[i].price <= v

IsLatestSearch(searchId, asg) ==
  /\ flight_searches[searchId].assignment_id = asg
  /\ \A j \in 1..Len(flight_searches) :
       flight_searches[j].assignment_id = asg
         => flight_searches[j].executed_at <= flight_searches[searchId].executed_at

\* C17: the quotes a load puts on the screen for an assignment are those of
\* the assignment's search with the greatest executed_at, ascending by price
\* and at most 3, and none when no search has run; in the consultant portal
\* and in the admin's assignments view, where the search shown is the first
\* of the loaded flight_searches.
C17_LatestQuotesShown ==
  [][\A asg \in Assignments :
       /\ loadConsultantData(asg) =>
            IF \A i \in 1..Len(flight_searches) : flight_searches[i].assignment_id # asg
              THEN portalAssignments'[asg] = <<>>
              ELSE \E sid \in 1..Len(flight_searches) :
                     /\ IsLatestSearch(sid, asg)
                     /\ ShowsCheapest(portalAssignments'[asg], sid, 3)
       /\ (\E order \in SeqsUpTo(1..MaxSearches, MaxSearches) : loadAssignments(asg, order)) =>
            IF \A i \in 1..Len(flight_searches) : flight_searches[i].assignment_id # asg
              THEN adminAssignments'[asg].flight_searches = <<>>
              ELSE IsLatestSearch(adminAssignments'[asg].flight_searches[1].id, asg)
       /\ loadFlightOptions(asg) =>
            ShowsCheapest(displayOptions'[asg],
                          adminAssignments[asg].flight_searches[1].id, 3)]_vars

ClaimIdsOf(c) == {id \in 1..Len(requests) : requests[id].consultant_id = c}

IdsIn(rows) == {rows[i].id : i \in 1..Len(rows)}

ClaimsIn(atts) == {atts[i].reimbursement_id : i \in 1..Len(atts)}

ReviewFieldsOf(row) == <<row.status, row.approved_amount, row.notes>>

\* C20: a claim row enters the table with status pending, and a step that
\* changes the status, the approved_amount or the notes of a claim is the
\* approve or reject of a session whose user holds the admin role; the
\* requests of a consultant's session never change these fields.
C20_OnlyAdminsReview ==
  [][\A id \in 1..Len(requests') :
       IF id > Len(requests)
         THEN requests'[id].status = "pending"
         ELSE ReviewFieldsOf(requests'[id]) # ReviewFieldsOf(requests[id]) =>
                \E a \in Admins, updateOk \in BOOLEAN :
                   handleApprove(a, updateOk) \/ handleReject(a, updateOk)]_vars

\* C20 witness: the user of con1 went through the approve of the manager on
\* con1's own pending claim; the handler ended on its success path and the
\* claim is as it was submitted
C20_Witness ==
  /\ mgr["user1"].outcome = "ok"
  /\ mgr["user1"].pc = "idle"
  /\ Len(requests) = 1
  /\ requests[1].consultant_id = "con1"
  /\ requests[1].status = "pending"
  /\ requests[1].approved_amount = Some(3)
  /\ requests[1].notes = Null

\* ------------------------------------------------------------- claim C21
\* C21 as stated: when every upload of a submit fails, the submit is reported
\* as an error and its claim row is not kept, so a submit that has completed
\* with a success message has at least one attachment row for its claim.
C21_NoClaimWithoutAttachment ==
  \A f \in Forms :
    IsSet(form[f].success) =>
      /\ form[f].request \in 1..Len(requests)
      /\ AttachmentsOf(form[f].request) # {}

\* ------------------------------------------------------------- claim C29
\* C29: when the claim insert of a submit fails the handler stops there: no
\* claim row, no stored file, no attachment row and no audit entry is written,
\* the form shows an error and no success, and the entered amount and the
\* selected files are as they were; a step that empties a non-empty file list
\* is the end of a submit whose claim was inserted, and shows its success.
C29_InsertFailureStops ==
  [][\A f \in Forms :
       /\ (handleSubmit(f) /\ form'[f].error = "insert_failed") =>
            /\ requests' = requests
            /\ stored' = stored
            /\ attachments' = attachments
            /\ audit_logs' = audit_logs
            /\ ~IsSet(form'[f].success)
            /\ ~form'[f].loading
            /\ form'[f].pc = "idle"
            /\ form'[f].submittedAmount = form[f].submittedAmount
            /\ form'[f].files = form[f].files
       /\ (form[f].files # <<>> /\ form'[f].files = <<>>) =>
            /\ form[f].pc = "finish"
            /\ form[f].request \in 1..Len(requests)
            /\ IsSet(form'[f].success)
            /\ form'[f].submittedAmount = <<>>]_vars

\* C29 witness: the insert of a filled-in form has failed; the error is shown
\* and the amount and the file are still in the form
C29_Witness ==
  \E f \in Forms :
    /\ form[f].error = "insert_failed"
    /\ form[f].pc = "idle"
    /\ form[f].submittedAmount = <<"3">>
    /\ Len(form[f].files) = 1
    /\ requests = <<>>

\* ------------------------------------------------------------- claim C30
StoredOf(rid) == {i \in 1..Len(stored) : stored[i].request = rid}

SubmittedEntries(rid) ==
  {i \in 1..Len(audit_logs) :
     /\ audit_logs[i].action = "reimbursement_submitted"
     /\ audit_logs[i].entity_id = rid}

\* C30: when a submit has completed, its uploadedCount is between 0 and the
\* number of files submitted, the new claim has exactly uploadedCount
\* attachment rows, every reimbursement_submitted entry of the claim records
\* files_uploaded = uploadedCount, and the files that reached storage without
\* an attachment row are not in the count.
C30_UploadedCountIsAttachmentCount ==
  \A f \in Forms :
    IsSet(form[f].success) =>
      LET rid == form[f].request
          uploadedCount == Val(form[f].success).uploadedCount
      IN  /\ 0 <= uploadedCount
          /\ uploadedCount <= Val(form[f].success).totalCount
          /\ Cardinality(AttachmentsOf(rid)) = uploadedCount
          /\ \A i \in SubmittedEntries(rid) :
               audit_logs[i].details.files_uploaded = uploadedCount
          /\ Cardinality(SubmittedEntries(rid)) <= 1
          /\ Cardinality(StoredOf(rid)) >= uploadedCount
          /\ \A i \in AttachmentsOf(rid) :
               \E j \in StoredOf(rid) :
                 stored[j].file_name = attachments[i].file_name

\* C30 witness: both files of a submit reached storage, the attachment insert
\* of one of them failed; the count, the attachment rows and the audit entry
\* all say 1
C30_Witness ==
  \E f \in Forms :
    /\ IsSet(form[f].success)
    /\ Val(form[f].success).totalCount = 2
    /\ Cardinality(StoredOf(form[f].request)) = 2
    /\ Cardinality(AttachmentsOf(form[f].request)) = 1
    /\ \E i \in SubmittedEntries(form[f].request) :
         audit_logs[i].details.files_uploaded = 1

\* ------------------------------------------------------------- claim C23
\* the step appends exactly one audit entry of the given kind for the claim
AppendsOne(kind, rid) ==
  /\ Len(audit_logs') = Len(audit_logs) + 1
  /\ SubSeq(audit_logs', 1, Len(audit_logs)) = audit_logs
  /\ audit_logs'[Len(audit_logs')].action = kind
  /\ audit_logs'[Len(audit_logs')].entity_id = rid

\* C23 as stated: every successful mutating operation appends exactly one
\* audit entry of the matching kind for the affected claim: the end of a
\* submit whose claim was created appends one reimbursement_submitted entry,
\* the end of an approve whose update succeeded one reimbursement_approved
\* entry, the end of a reject whose update succeeded one
\* reimbursement_rejected entry; every other step, a failed claim insert and a
\* failed status update among them, appends none.
C23_OneAuditEntryPerOperation ==
  [][/\ \A f \in Forms :
          (form[f].pc = "finish" /\ form'[f].pc = "idle") =>
            AppendsOne("reimbursement_submitted", form[f].request)
     /\ \A a \in DOMAIN mgr :
          (mgr[a].pc = "approve_audit" /\ mgr'[a].pc = "idle") =>
            AppendsOne("reimbursement_approved", Val(mgr[a].reviewingId))
     /\ \A a \in DOMAIN mgr :
          (mgr[a].pc = "reject_audit" /\ mgr'[a].pc = "idle") =>
            AppendsOne("reimbursement_rejected", Val(mgr[a].reviewingId))
     /\ (/\ \A f \in Forms : ~(form[f].pc = "finish" /\ form'[f].pc = "idle")
         /\ \A a \in DOMAIN mgr :
              ~(mgr[a].pc \in {"approve_audit", "reject_audit"}
                /\ mgr'[a].pc = "idle")) =>
          audit_logs' = audit_logs]_vars

\* ------------------------------------------------------------- claim C24
\* C24: an approve by an admin whose update succeeded leaves the claim of the
\* open panel approved, with the notes held in the panel and review_date set
\* to the time of the update; a reject whose update succeeded leaves it
\* rejected with review_date set to the time of the update; and in every
\* state a claim has a review_date exactly when its status is approved,
\* rejected or paid.
C24_ReviewDateIffReviewed ==
  /\ [][\A a \in Admins :
          /\ (handleApprove(a, TRUE) /\ Val(mgr[a].reviewingId) \in 1..Len(requests)) =>
               LET row == requests'[Val(mgr[a].reviewingId)]
               IN  /\ row.status = "approved"
                   /\ row.notes = Some(mgr[a].reviewNotes)
                   /\ row.review_date = Some(now)
          /\ (/\ handleReject(a, TRUE)
              /\ ~BlankReason(mgr[a].rejectionReason)
              /\ Val(mgr[a].reviewingId) \in 1..Len(requests)) =>
               LET row == requests'[Val(mgr[a].reviewingId)]
               IN  /\ row.status = "rejected"
                   /\ row.review_date = Some(now)]_vars
  /\ [](\A i \in 1..Len(requests) :
          IsSet(requests[i].review_date) <=> requests[i].status \in TerminalStatuses)

\* C24 witness: a claim approved with the reviewer's notes "n" and a
\* review_date later than its submission
C24_Witness ==
  \E i \in 1..Len(requests) :
    /\ requests[i].status = "approved"
    /\ requests[i].notes = Some(<<"n">>)
    /\ IsSet(requests[i].review_date)
    /\ Val(requests[i].review_date) > requests[i].submission_date

\* C24 second witness: a rejected claim with its review_date
C24_WitnessReject ==
  \E i \in 1..Len(requests) :
    /\ requests[i].status = "rejected"
    /\ IsSet(requests[i].review_date)

\* ------------------------------------------------------------- claim C25
\* the claim of the open panel is no longer pending in the table
ReviewConflict(a) ==
  /\ Val(mgr[a].reviewingId) \in 1..Len(requests)
  /\ requests[Val(mgr[a].reviewingId)].status # "pending"

\* C25 as stated: an approve or a reject that fails for another reason than
\* its audit insert, because the update returns an error or because the claim
\* is no longer pending, ends with an error outcome for the reviewer, writes
\* nothing and does not go on to a further request.
C25_ReviewFailuresReported ==
  [][\A a \in DOMAIN mgr :
       (\/ handleApprove(a, FALSE)
        \/ handleApprove(a, TRUE) /\ ReviewConflict(a)
        \/ handleReject(a, FALSE) /\ ~BlankReason(mgr[a].rejectionReason)
        \/ /\ handleReject(a, TRUE)
           /\ ~BlankReason(mgr[a].rejectionReason)
           /\ ReviewConflict(a)) =>
         /\ mgr'[a].outcome = "error"
         /\ mgr'[a].pc = "idle"
         /\ requests' = requests
         /\ audit_logs' = audit_logs]_vars

\* ------------------------------------------------------------- claim C22
\* sum of approved_amount over the approved or paid claims among the first n
\* claims that were submitted against the assignment
RECURSIVE ReimbursedUpTo(_, _)
ReimbursedUpTo(asg, n) ==
  IF n = 0 THEN 0
  ELSE ReimbursedUpTo(asg, n - 1)
         + (IF /\ requests[n].assignment_id = asg
               /\ requests[n].status \in {"approved", "paid"}
               /\ IsSet(requests[n].approved_amount)
              THEN Val(requests[n].approved_amount) ELSE 0)

TotalReimbursed(asg) == ReimbursedUpTo(asg, Len(requests))

\* C22 as stated: for every assignment with a price cap, the sum of
\* approved_amount over its approved or paid claims is at most the cap's
\* max_approved_price, however many claims were submitted against it.
C22_TotalReimbursedAtMostCap ==
  \A asg \in Assignments :
    IsSet(activeCapFor(asg)) =>
      TotalReimbursed(asg) <= Val(activeCapFor(asg)).max_approved_price

\* ------------------------------------------------------------- claim C27
\* C27 as stated: whenever a review panel is opened for a claim, after an
\* approve, a reject, a cancel, or by switching from the open panel of another
\* claim, the rejectionReason and the reviewNotes held by the component are
\* empty, so that what a later approve or reject writes was entered for that
\* claim.
C27_PanelOpensEmpty ==
  [][\A a \in DOMAIN mgr :
       (IsSet(mgr'[a].reviewingId) /\ mgr'[a].reviewingId # mgr[a].reviewingId) =>
         /\ mgr'[a].reviewNotes = <<>>
         /\ mgr'[a].rejectionReason = <<>>]_vars

\* ------------------------------------------------------------- claim C28
\* the form shows exactly one of a success message and an error message
OneMessage(fm) == IsSet(fm.success) # (fm.error # "")

\* the submit of form f ends in this step
SubmitEnds(f) ==
  \/ form[f].pc = "finish" /\ form'[f].pc = "idle"
  \/ handleSubmit(f) /\ form'[f].error = "insert_failed"

\* C28, first part: once loading is true it is eventually false again.
C28_LoadingEventuallyReset ==
  \A f \in PipelineForms : form[f].loading ~> ~form[f].loading

\* C28 as stated: every submit that passes validation eventually finishes,
\* loading being reset to false, and when it ends the form shows exactly one
\* of a success and an error message.
C28_SubmitFinishesWithOneMessage ==
  /\ \A f \in PipelineForms : form[f].loading ~> ~form[f].loading
  /\ [][\A f \in Forms :
         SubmitEnds(f) => ~form'[f].loading /\ OneMessage(form'[f])]_vars

\* ------------------------------------------------------------- claim C26
HotelOptionsOf(searchId) ==
  {i \in 1..Len(hotel_options) : hotel_options[i].search_id = searchId}

\* C26: a search whose provider answers with no hotels ends without an
\* error: the step that receives the answer leaves the persisted search row
\* in place, adds no option row and no price cap, and leaves the panel idle
\* with the 'no hotels found' success message and no error message; and
\* whenever that message is shown its search row exists and has no options.
C26_NoneFoundIsNotAnError ==
  /\ [][\A a \in AccessSessions, data \in {Null, Some(<<>>)}, insertOk \in BOOLEAN :
          searchHotels(a, TRUE, data, insertOk) =>
            /\ hotelPanel[a].search \in 1..Len(hotel_searches)
            /\ hotel_searches' = hotel_searches
            /\ hotel_options' = hotel_options
            /\ price_caps' = price_caps
            /\ hotelPanel'[a].success = Some([kind |-> "none_found", count |-> 0])
            /\ hotelPanel'[a].error = ""
            /\ ~hotelPanel'[a].searching]_vars
  /\ [](\A a \in AccessSessions :
          (/\ IsSet(hotelPanel[a].success)
           /\ Val(hotelPanel[a].success).kind = "none_found") =>
            /\ hotelPanel[a].search \in 1..Len(hotel_searches)
            /\ HotelOptionsOf(hotelPanel[a].search) = {}
            /\ hotelPanel[a].error = "")

\* C26 witness: the provider answered a persisted search with an empty list;
\* the panel shows 'no hotels found', no error, and the search has no options
C26_Witness ==
  \E a \in AccessSessions :
    /\ hotelPanel[a].success = Some([kind |-> "none_found", count |-> 0])
    /\ hotelPanel[a].error = ""
    /\ ~hotelPanel[a].searching
    /\ hotel_searches # <<>>
    /\ HotelOptionsOf(hotelPanel[a].search) = {}
    /\ price_caps = <<>>

====
